---- MODULE Spec2Model ----
(***************************************************************************)
(* Model of the RSS-to-NotebookLM tool: feed_fetcher.fetch_rss_feed,       *)
(* parser.parse_rss_feed, formatter.format_for_notebooklm /                *)
(* format_as_json_summary / _clean_html and cli.main / cli.main_async.     *)
(*                                                                         *)
(* Text.  A Python str is a sequence of units.  A unit is a TLA+ string:   *)
(* either one of the characters the code looks for ("<", ">", "&", ";",    *)
(* " ", NL) or a word that holds none of them at its ends and is handled   *)
(* whole by every operation below ("lt", "A", "http://x", Hdr, ...).  The  *)
(* words are chosen so that no concatenation of other units spells one of  *)
(* them: two strs are equal iff their unit sequences are equal.            *)
(* _clean_html as modelled here agrees with Python's re and html.unescape  *)
(* on every str of up to four of the units "<", ">", "&", ";", " ", NL,    *)
(* "lt", "gt", "b", "amp", Hdr.                                            *)
(***************************************************************************)
EXTENDS Integers, Sequences, FiniteSets, TLC

VARIABLES
    \* ---- _clean_html applied repeatedly (SpecClean)
    cleanIn,      \* the str given to the first call
    cleanTexts,   \* the results of the successive calls, oldest first
    \* ---- parse_rss_feed on a document (SpecParse)
    doc,          \* the XML document (feed_content)
    parseRes,     \* what parse_rss_feed did: not called / returned / raised
    parseLog,     \* the log records parse_rss_feed emitted
    \* ---- the formatters on a parsed feed (SpecFormat)
    fmtFeed,      \* the ParsedFeed handed to the formatter
    fmtCall,      \* the call made: mode, max_items, include_metadata
    fmtOut,       \* the returned str
    \* ---- the command-line pipeline (Spec)
    pc,           \* position in main / main_async / fetch_rss_feed
    args,         \* the argparse.Namespace
    client,       \* httpx.AsyncClient: "none", "open", "closed"
    attempt,      \* the loop variable of fetch_rss_feed
    gets,         \* outcome of every client.get issued, in order
    fetchRes,     \* what fetch_rss_feed did: nothing yet / returned / raised
    parsed,       \* parse_rss_feed's result in main_async
    parseCalled,  \* whether main_async called parse_rss_feed
    output,       \* the formatted str in main_async
    sink,         \* the output sink: file or stdout content state
    status,       \* the completion status (exit code), None while running
    log           \* log records of the pipeline run

cleanVars == <<cleanIn, cleanTexts>>
parseVars == <<doc, parseRes, parseLog>>
fmtVars   == <<fmtFeed, fmtCall, fmtOut>>
pipeVars  == <<pc, args, client, attempt, gets, fetchRes, parsed, parseCalled,
               output, sink, status, log>>
vars == <<cleanIn, cleanTexts, doc, parseRes, parseLog, fmtFeed, fmtCall,
          fmtOut, pc, args, client, attempt, gets, fetchRes, parsed,
          parseCalled, output, sink, status, log>>

\* Python's None, and a present value of an Optional[str] field.
None == [none |-> TRUE]
Some(v) == [val |-> v]   \* also wraps a present Optional[int]
\* No exception raised.
Ok == "ok"

----------------------------------------------------------------------------
(* Text primitives *)

NL == "\n"
\* Python's str.strip() and the regex class \s: whitespace characters.
Whitespace == {" ", NL}

Min(a, b) == IF a <= b THEN a ELSE b

\* All sequences over S of length at most n.
RECURSIVE StrUpTo(_, _)
StrUpTo(S, n) ==
    IF n = 0 THEN {<<>>}
    ELSE LET shorter == StrUpTo(S, n - 1)
         IN  shorter \cup {Append(s, c) : s \in {t \in shorter : Len(t) = n - 1}, c \in S}

\* s[i:]  (1-based i)
Drop(s, i) == SubSeq(s, i, Len(s))

RECURSIVE LStrip(_)
LStrip(s) ==
    IF s # <<>> /\ Head(s) \in Whitespace THEN LStrip(Tail(s)) ELSE s

RECURSIVE RStrip(_)
RStrip(s) ==
    IF s # <<>> /\ s[Len(s)] \in Whitespace
    THEN RStrip(SubSeq(s, 1, Len(s) - 1)) ELSE s

\* str.strip()
Strip(s) == RStrip(LStrip(s))

\* sep.join(parts) for a list of strs
RECURSIVE Join(_, _)
Join(sep, parts) ==
    IF parts = <<>> THEN <<>>
    ELSE IF Len(parts) = 1 THEN parts[1]
    ELSE parts[1] \o sep \o Join(sep, Tail(parts))

----------------------------------------------------------------------------
(* formatter._clean_html *)

\* Index of the first ">" at or after position i, 0 if none.
RECURSIVE FirstGt(_, _)
FirstGt(s, i) ==
    IF i > Len(s) THEN 0
    ELSE IF s[i] = ">" THEN i
    ELSE FirstGt(s, i + 1)

\* re.sub(r"<[^>]+>", "", text): leftmost non-overlapping matches; a match
\* at "<" needs at least one non-">" character before the closing ">".
RECURSIVE StripTags(_)
StripTags(s) ==
    IF s = <<>> THEN <<>>
    ELSE IF Head(s) = "<" /\ Len(s) >= 3 /\ s[2] # ">" /\ FirstGt(s, 3) # 0
         THEN StripTags(Drop(s, FirstGt(s, 3) + 1))
         ELSE <<Head(s)>> \o StripTags(Tail(s))

\* The units a character-reference name may be made of: the regex class
\* [^\t\n\f <&#;] of html.unescape.  Hdr begins with "#".
Hdr == "# Cybersecurity News Feed"
NameUnit(c) == c \notin {" ", NL, "<", "&", ";", Hdr}

\* html.entities.html5, restricted to the names spelled by the units.
EntityNames == {"lt", "gt", "amp"}
EntityChar(n) == CASE n = "lt" -> "<" [] n = "gt" -> ">" [] n = "amp" -> "&"

\* Length of the maximal run of name units at the head of s.
RECURSIVE NameRun(_)
NameRun(s) ==
    IF s # <<>> /\ NameUnit(Head(s)) THEN 1 + NameRun(Tail(s)) ELSE 0

\* html.unescape's replace_charref on the matched group m (name units, then
\* an optional ";"): the whole group if it is a name, else the longest proper
\* prefix that is a name followed by the rest, else the text unchanged.
ReplaceCharref(m) ==
    LET name == IF m[Len(m)] = ";" THEN SubSeq(m, 1, Len(m) - 1) ELSE m
    IN  IF Len(name) = 1 /\ name[1] \in EntityNames
        THEN <<EntityChar(name[1])>>
        ELSE IF Len(m) >= 2 /\ m[1] \in EntityNames
        THEN <<EntityChar(m[1])>> \o Tail(m)
        ELSE <<"&">> \o m

\* html.unescape(text): one left-to-right pass, replacements are not rescanned.
RECURSIVE Unescape(_)
Unescape(s) ==
    IF s = <<>> THEN <<>>
    ELSE IF Head(s) = "&" /\ NameRun(Tail(s)) > 0
    THEN LET n    == NameRun(Tail(s))
             semi == Len(s) >= n + 2 /\ s[n + 2] = ";"
             k    == IF semi THEN n + 1 ELSE n
         IN  ReplaceCharref(SubSeq(s, 2, k + 1)) \o Unescape(Drop(s, k + 2))
    ELSE <<Head(s)>> \o Unescape(Tail(s))

\* re.sub(r"\s+", " ", text)
RECURSIVE CollapseWs(_)
CollapseWs(s) ==
    IF s = <<>> THEN <<>>
    ELSE IF Head(s) \in Whitespace
    THEN <<" ">> \o CollapseWs(LStrip(s))
    ELSE <<Head(s)>> \o CollapseWs(Tail(s))

\* _clean_html(text)
CleanHtml(text) == Strip(CollapseWs(Unescape(StripTags(text))))

----------------------------------------------------------------------------
(* parser.py: the XML document, the models and parse_rss_feed *)

\* An absent element (find() returned None).
NoElem == [absent |-> TRUE]
\* An ElementTree element: .text (None reads as ""), the concatenated text
\* of its descendants and their tails (what itertext() adds to .text), and
\* .tail, the text that follows the element's end tag inside its parent.
Elem(text, inner, tail) == [text |-> text, inner |-> inner, tail |-> tail]
TextElem(text) == Elem(text, <<>>, <<>>)

\* Date strings: dateutil parses DateOk; it raises ParserError, a
\* ValueError, on DateBad and on every other non-date text of the model.
DateOk  == "Mon, 01 Jan 2024 12:00:00 GMT"
DateBad == "not-a-date"
DateOkValue == [ymd |-> "2024-01-01", hms |-> "12:00:00"]

\* date_parser.parse(timestr)
DateutilParse(s) ==
    IF s = <<DateOk>> THEN [raised |-> Ok, value |-> DateOkValue]
    ELSE [raised |-> "ValueError", value |-> None]

LogRec(level, msg) == [level |-> level, msg |-> msg]

\* NewsItem.parse_pub_date, the "before" validator of pub_date: v is None,
\* a datetime or Some(str).  Returns the field value and the records it logs.
ParsePubDateValidator(v) ==
    IF v = None \/ v = Some(<<>>) THEN [value |-> None, logs |-> <<>>]
    ELSE IF "ymd" \in DOMAIN v THEN [value |-> v, logs |-> <<>>]
    ELSE IF DateutilParse(v.val).raised = Ok
    THEN [value |-> DateutilParse(v.val).value, logs |-> <<>>]
    ELSE [value |-> None, logs |-> <<LogRec("WARNING", "Failed to parse date")>>]

\* _extract_text(element, default)
ExtractText(element, default) ==
    IF element = NoElem THEN default
    ELSE Strip(element.text \o element.tail)

\* _extract_cdata(element)
ExtractCdata(element) ==
    IF element = NoElem THEN <<>>
    ELSE IF element.text # <<>> THEN Strip(element.text)
    ELSE Strip(element.inner)

\* _parse_date(date_str): the except clause swallows ValueError, TypeError.
ParseDate(date_str) ==
    IF date_str = <<>> THEN None
    ELSE IF DateutilParse(date_str).raised \in {"ValueError", "TypeError"} THEN None
    ELSE DateutilParse(date_str).value

\* FeedMetadata(...) as built in parse_rss_feed
FeedMetadata(channel) ==
    [title           |-> ExtractText(channel.title, <<"Unknown Feed">>),
     link            |-> ExtractText(channel.link, <<>>),
     description     |-> ExtractText(channel.description, <<>>),
     last_build_date |-> ParseDate(ExtractText(channel.lastBuildDate, <<>>)),
     language        |-> ExtractText(channel.language, <<>>)]

\* The category list comprehension of parse_rss_feed
RECURSIVE Categories(_)
Categories(cat_elems) ==
    IF cat_elems = <<>> THEN <<>>
    ELSE (IF ExtractText(Head(cat_elems), <<>>) # <<>>
          THEN <<ExtractText(Head(cat_elems), <<>>)>> ELSE <<>>)
         \o Categories(Tail(cat_elems))

\* One iteration of the item loop: the NewsItem appended (none if title or
\* link is empty) and the records logged while building it.
ParseItem(item_elem) ==
    LET title       == ExtractText(item_elem.title, <<>>)
        link        == ExtractText(item_elem.link, <<>>)
        description == ExtractCdata(item_elem.description)
        pub_date    == ParseDate(ExtractText(item_elem.pubDate, <<>>))
        author      == ExtractText(item_elem.author, <<>>)
        guid        == IF item_elem.guid # NoElem
                       THEN Some(ExtractText(item_elem.guid, <<>>)) ELSE None
        categories  == Categories(item_elem.categories)
        validated   == ParsePubDateValidator(pub_date)
    IN  IF title # <<>> /\ link # <<>>
        THEN [items |-> << [title       |-> title,
                            link        |-> link,
                            description |-> description,
                            pub_date    |-> validated.value,
                            author      |-> IF author # <<>> THEN Some(author) ELSE None,
                            guid        |-> guid,
                            categories  |-> categories] >>,
              logs  |-> validated.logs]
        ELSE [items |-> <<>>, logs |-> <<>>]

\* The item loop of parse_rss_feed over channel.findall("item")
RECURSIVE ParseItems(_)
ParseItems(item_elems) ==
    IF item_elems = <<>> THEN [items |-> <<>>, logs |-> <<>>]
    ELSE LET first == ParseItem(Head(item_elems))
             rest  == ParseItems(Tail(item_elems))
         IN  [items |-> first.items \o rest.items, logs |-> first.logs \o rest.logs]

\* A document: not well-formed XML, or a root with its channel children.
MalformedDoc == [wellformed |-> FALSE, channels |-> <<>>]
XmlDoc(channels) == [wellformed |-> TRUE, channels |-> channels]

\* parse_rss_feed(feed_content): what it raises (Ok if it returns), the
\* ParsedFeed it returns and the log records it emits.
ParseRssFeed(feed_content) ==
    IF ~feed_content.wellformed
    THEN [raised |-> "ParseError", feed |-> None,
          logs |-> <<LogRec("ERROR", "Failed to parse XML")>>]
    ELSE IF feed_content.channels = <<>>
    THEN [raised |-> "ValueError", feed |-> None, logs |-> <<>>]
    ELSE LET channel == feed_content.channels[1]
             loop    == ParseItems(channel.items)
         IN  [raised |-> Ok,
              feed   |-> [metadata |-> FeedMetadata(channel), items |-> loop.items],
              logs   |-> loop.logs \o <<LogRec("INFO", "Parsed items")>>]

----------------------------------------------------------------------------
(* formatter.py *)

\* datetime.strftime('%Y-%m-%d %H:%M:%S UTC') and strftime('%Y-%m-%d')
StrftimeUtc(d) == <<d.ymd, " ", d.hms, " UTC">>
StrftimeDay(d) == <<d.ymd>>

\* Truthiness of an Optional[str] field.
Truthy(opt) == opt # None /\ opt.val # <<>>

\* items[:max_items] for max_items > 0
Slice(items, n) == SubSeq(items, 1, IF n < Len(items) THEN n ELSE Len(items))

\* A truncation that also caps at max_items = 0.
TruncateZeroCaps(items, max_items) ==
    IF max_items # None /\ max_items.val >= 0
    THEN Slice(items, max_items.val) ELSE items
\* The truncation both formatters apply: max_items is None or an int.
Truncate(items, max_items) ==
    IF max_items # None /\ max_items.val > 0
    THEN Slice(items, max_items.val) ELSE items

\* The metadata header block of format_for_notebooklm.
MdMetaLines(metadata) ==
    << <<Hdr>>, <<>>, <<"**Source:** ">> \o metadata.title >>
    \o (IF metadata.description # <<>>
        THEN << <<"**Description:** ">> \o metadata.description >> ELSE <<>>)
    \o (IF metadata.link # <<>>
        THEN << <<"**Website:** ">> \o metadata.link >> ELSE <<>>)
    \o (IF metadata.last_build_date # None
        THEN << <<"**Last Updated:** ">> \o StrftimeUtc(metadata.last_build_date) >>
        ELSE <<>>)
    \o << <<>>, <<"---">>, <<>> >>

\* The lines one iteration of the item loop of format_for_notebooklm appends.
MdItemLines(idx, item) ==
    << <<"## ", ToString(idx), ". ">> \o item.title, <<>> >>
    \o (IF item.pub_date # None
        THEN << <<"**Published:** ">> \o StrftimeUtc(item.pub_date), <<>> >> ELSE <<>>)
    \o (IF item.description # <<>>
        THEN << CleanHtml(item.description), <<>> >> ELSE <<>>)
    \o << <<"**Link:** ">> \o item.link, <<>> >>
    \o (IF Truthy(item.author)
        THEN << <<"**Author:** ">> \o item.author.val, <<>> >> ELSE <<>>)
    \o (IF item.categories # <<>>
        THEN << <<"**Categories:** ">> \o Join(<<", ">>, item.categories), <<>> >>
        ELSE <<>>)
    \o << <<"---">>, <<>> >>

\* enumerate(items, start): the lines of items[1..], numbered from idx.
RECURSIVE MdLoop(_, _)
MdLoop(idx, items) ==
    IF items = <<>> THEN <<>>
    ELSE MdItemLines(idx, Head(items)) \o MdLoop(idx + 1, Tail(items))

\* format_for_notebooklm(parsed_feed, max_items, include_metadata)
FormatForNotebooklm(parsed_feed, max_items, include_metadata) ==
    Join(<<NL>>,
         (IF include_metadata THEN MdMetaLines(parsed_feed.metadata) ELSE <<>>)
         \o MdLoop(1, Truncate(parsed_feed.items, max_items)))

\* Characters in a unit, and s[:n] counted in characters.  A cut that falls
\* inside a unit drops the unit; the texts of the model are shorter than
\* SummaryChars, so the cut never falls inside one.
SummaryChars == 200
CharLen(u) ==
    CASE u = Hdr -> 25 [] u = "http://x" -> 8 [] u = "http://y" -> 8
      [] u = "amp" -> 3 [] u \in {"lt", "gt"} -> 2 [] OTHER -> 1
RECURSIVE TakeChars(_, _)
TakeChars(s, n) ==
    IF s = <<>> \/ CharLen(Head(s)) > n THEN <<>>
    ELSE <<Head(s)>> \o TakeChars(Tail(s), n - CharLen(Head(s)))

\* The lines one iteration of the item loop of format_as_json_summary appends.
SummaryItemLines(idx, item) ==
    << <<ToString(idx), ". ">> \o item.title >>
    \o (IF item.pub_date # None
        THEN << <<"   Date: ">> \o StrftimeDay(item.pub_date) >> ELSE <<>>)
    \o << <<"   URL: ">> \o item.link >>
    \o (IF item.description # <<>>
        THEN << <<"   Summary: ">>
                \o TakeChars(CleanHtml(item.description), SummaryChars) \o <<"...">> >>
        ELSE <<>>)
    \o << <<>> >>

RECURSIVE SummaryLoop(_, _)
SummaryLoop(idx, items) ==
    IF items = <<>> THEN <<>>
    ELSE SummaryItemLines(idx, Head(items)) \o SummaryLoop(idx + 1, Tail(items))

\* format_as_json_summary(parsed_feed, max_items)
FormatAsJsonSummary(parsed_feed, max_items) ==
    LET items == Truncate(parsed_feed.items, max_items)
    IN  Join(<<NL>>,
             << <<"Feed: ">> \o parsed_feed.metadata.title,
                <<"Total Items: ", ToString(Len(items))>>,
                <<>>, <<"Articles:">>, <<>> >>
             \o SummaryLoop(1, items))

\* The lines of a str: str.split("\n")
RECURSIVE SplitLines(_)
SplitLines(s) ==
    LET RECURSIVE FirstNl(_)
        FirstNl(i) == IF i > Len(s) THEN 0 ELSE IF s[i] = NL THEN i ELSE FirstNl(i + 1)
        k == FirstNl(1)
    IN  IF k = 0 THEN <<s>>
        ELSE <<SubSeq(s, 1, k - 1)>> \o SplitLines(Drop(s, k + 1))

----------------------------------------------------------------------------
(* Bounds and input sets *)

MaxCleanLen   == 4    \* units in a str given to _clean_html
MaxCleanCalls == 2    \* successive applications of _clean_html
MaxItems      == 2    \* item elements in a document

CleanUnits == {"<", ">", "&", ";", " ", "lt", "b"}

ItemElem(title, link, description, pubDate, author, guid, categories) ==
    [title |-> title, link |-> link, description |-> description,
     pubDate |-> pubDate, author |-> author, guid |-> guid,
     categories |-> categories]
Channel(title, link, description, lastBuildDate, language, items) ==
    [title |-> title, link |-> link, description |-> description,
     lastBuildDate |-> lastBuildDate, language |-> language, items |-> items]

\* Sequences of at most n members of S.
Lists(S, n) == UNION {[1..k -> S] : k \in 0..n}

\* -- documents given to parse_rss_feed alone
ParseTitleElems ==
    {NoElem} \cup {Elem(t, <<>>, tl) : t \in {<<>>, <<" ">>, <<"A">>, <<NL, "A", " ">>},
                                       tl \in {<<>>, <<NL>>, <<"A">>}}
ParseLinkElems ==
    {NoElem, TextElem(<<>>), Elem(<<"http://x">>, <<>>, <<NL>>),
     Elem(<<>>, <<>>, <<"http://y">>)}
ParseDateElems ==
    {NoElem, TextElem(<<DateOk>>), TextElem(<<DateBad>>), TextElem(<<" ">>)}
ParseItemElems ==
    {ItemElem(t, l, NoElem, d, NoElem, NoElem, <<>>) :
        t \in ParseTitleElems, l \in ParseLinkElems, d \in ParseDateElems}
ParseDocs ==
    {MalformedDoc, XmlDoc(<<>>)}
    \cup {XmlDoc(<<Channel(TextElem(<<"T">>), NoElem, NoElem, b, NoElem, items)>>) :
            b \in {NoElem, TextElem(<<DateOk>>), TextElem(<<DateBad>>)},
            items \in Lists(ParseItemElems, MaxItems)}

\* -- documents whose parse is handed to the formatters
FmtBase(t) ==
    ItemElem(TextElem(t), TextElem(<<"http://x">>), NoElem, NoElem, NoElem, NoElem, <<>>)
FmtItemElems ==
    {FmtBase(t) : t \in {<<"A">>, <<"B">>, <<"A", NL, Hdr>>}}
    \cup {[FmtBase(<<"A">>) EXCEPT !.description = TextElem(d)] :
            d \in {<<"<", "b", ">", "A", " ", NL, "B">>, <<Hdr>>, <<"&", "lt", ";", "b", ">">>}}
    \cup {[FmtBase(<<"A">>) EXCEPT !.pubDate = TextElem(d)] : d \in {<<DateOk>>, <<DateBad>>}}
    \cup {[FmtBase(<<"A">>) EXCEPT !.author = TextElem(a)] : a \in {<<"C">>, <<"C", NL, Hdr>>}}
    \cup {[FmtBase(<<"A">>) EXCEPT !.categories = c] :
            c \in {<<TextElem(<<"C">>)>>, <<TextElem(<<"C">>), TextElem(<<" ">>), TextElem(<<"D">>)>>}}
    \cup {[FmtBase(<<"B">>) EXCEPT !.guid = TextElem(<<"G">>)]}
FmtChannels(items) ==
    {Channel(NoElem, NoElem, NoElem, NoElem, NoElem, items),
     Channel(TextElem(<<"T">>), TextElem(<<"http://x">>), TextElem(<<"D">>),
             TextElem(<<DateOk>>), TextElem(<<"en">>), items)}
FmtFeeds ==
    {ParseRssFeed(XmlDoc(<<c>>)).feed :
        c \in UNION {FmtChannels(items) : items \in Lists(FmtItemElems, MaxItems)}}
MaxItemsArgs == {None} \cup {Some(k) : k \in -1..(MaxItems + 1)}

\* The values the variables of the other specifications keep.
NotCalled == [called |-> FALSE]
IdleClean  == cleanIn = <<>> /\ cleanTexts = <<>>
IdleParse  == doc = MalformedDoc /\ parseRes = NotCalled /\ parseLog = <<>>
IdleFormat == fmtFeed = None /\ fmtCall = None /\ fmtOut = <<>>
IdlePipe   ==
    /\ pc = "idle" /\ args = None /\ client = "none" /\ attempt = 0
    /\ gets = <<>> /\ fetchRes = NotCalled /\ parsed = None /\ parseCalled = FALSE
    /\ output = <<>> /\ sink = None /\ status = None /\ log = <<>>

----------------------------------------------------------------------------
(* SpecClean: _clean_html applied to its own result *)

InitClean ==
    /\ cleanIn \in StrUpTo(CleanUnits, MaxCleanLen)
    /\ cleanTexts = <<>>
    /\ IdleParse /\ IdleFormat /\ IdlePipe

\* One call of _clean_html: on the input first, then on the last result.
CleanCall ==
    /\ Len(cleanTexts) < MaxCleanCalls
    /\ cleanTexts' = Append(cleanTexts,
                            CleanHtml(IF cleanTexts = <<>> THEN cleanIn
                                      ELSE cleanTexts[Len(cleanTexts)]))
    /\ UNCHANGED <<cleanIn, parseVars, fmtVars, pipeVars>>

NextClean == CleanCall
SpecClean == InitClean /\ [][NextClean]_vars

----------------------------------------------------------------------------
(* SpecParse: parse_rss_feed on a document *)

InitParse ==
    /\ doc \in ParseDocs
    /\ parseRes = NotCalled
    /\ parseLog = <<>>
    /\ IdleClean /\ IdleFormat /\ IdlePipe

ParseCall ==
    /\ ~parseRes.called
    /\ LET r == ParseRssFeed(doc)
       IN  /\ parseRes' = [called |-> TRUE, raised |-> r.raised, feed |-> r.feed]
           /\ parseLog' = r.logs
    /\ UNCHANGED <<doc, cleanVars, fmtVars, pipeVars>>

NextParse == ParseCall
SpecParse == InitParse /\ [][NextParse]_vars

----------------------------------------------------------------------------
(* SpecFormat: the two formatters on a feed the parser produced *)

InitFormat ==
    /\ fmtFeed \in FmtFeeds
    /\ fmtCall = None
    /\ fmtOut = <<>>
    /\ IdleClean /\ IdleParse /\ IdlePipe

MarkdownCall ==
    /\ fmtCall = None
    /\ \E max_items \in MaxItemsArgs, include_metadata \in BOOLEAN :
          /\ fmtCall' = [mode |-> "markdown", max_items |-> max_items,
                         include_metadata |-> include_metadata]
          /\ fmtOut' = FormatForNotebooklm(fmtFeed, max_items, include_metadata)
    /\ UNCHANGED <<fmtFeed, cleanVars, parseVars, pipeVars>>

SummaryCall ==
    /\ fmtCall = None
    /\ \E max_items \in MaxItemsArgs :
          /\ fmtCall' = [mode |-> "summary", max_items |-> max_items,
                         include_metadata |-> FALSE]
          /\ fmtOut' = FormatAsJsonSummary(fmtFeed, max_items)
    /\ UNCHANGED <<fmtFeed, cleanVars, parseVars, pipeVars>>

NextFormat == MarkdownCall \/ SummaryCall
SpecFormat == InitFormat /\ [][NextFormat]_vars

----------------------------------------------------------------------------
(* feed_fetcher.py and cli.py: the pipeline *)

MaxRetries == 3    \* largest --retries value tried

\* urllib.parse.urlparse on the URLs of the model: scheme and netloc.
Urls == {"", "example.com/feed", "http:///feed", "https://example.com/feed"}
Urlparse(url) ==
    CASE url = ""                         -> [scheme |-> "", netloc |-> ""]
      [] url = "example.com/feed"         -> [scheme |-> "", netloc |-> ""]
      [] url = "http:///feed"             -> [scheme |-> "http", netloc |-> ""]
      [] url = "https://example.com/feed" -> [scheme |-> "https", netloc |-> "example.com"]

\* A guard that forgets the netloc test.
UrlRejectedSchemeOnly(feed_url) ==
    feed_url = "" \/ Urlparse(feed_url).scheme = ""
\* The two guards at the top of fetch_rss_feed: TRUE when ValueError is
\* raised.  feed_url is always a str here (argparse type=str).
UrlRejected(feed_url) ==
    \/ feed_url = ""
    \/ Urlparse(feed_url).scheme = "" \/ Urlparse(feed_url).netloc = ""

\* range(1, max_retries): one iteration short.
InRangeExclusive(n, max_retries) == n < max_retries
\* range(1, max_retries + 1): whether the loop body runs for this attempt.
InRange(n, max_retries) == n <= max_retries

\* A test that is never true inside the loop.
LastAttemptNever(n, max_retries) == n > max_retries
\* The test "attempt == max_retries" of both except clauses.
LastAttempt(n, max_retries) == n = max_retries

\* What one client.get(feed_url) can do: a response, or a network-level
\* failure (httpx.RequestError: timeout, connection error, ...).
GoodDoc ==
    XmlDoc(<<Channel(TextElem(<<"T">>), NoElem, NoElem, NoElem, NoElem,
                     <<FmtBase(<<"A">>),
                       ItemElem(TextElem(<<>>), TextElem(<<"http://y">>),
                                NoElem, NoElem, NoElem, NoElem, <<>>),
                       [FmtBase(<<"B">>) EXCEPT !.description = TextElem(<<"D">>)]>>)>>)
Response(status_code, content, url) ==
    [kind |-> "response", status_code |-> status_code, content |-> content, url |-> url]
GetOutcomes(feed_url) ==
    {Response(200, d, feed_url) : d \in {MalformedDoc, XmlDoc(<<>>), GoodDoc}}
    \cup {Response(200, GoodDoc, "https://example.com/rss")}
    \cup {Response(c, MalformedDoc, feed_url) : c \in {404, 503}}
    \cup {[kind |-> "RequestError"]}

\* response.raise_for_status(): raises HTTPStatusError unless 2xx.
RaisesForStatus(response) ==
    ~(200 <= response.status_code /\ response.status_code <= 299)

\* The exception an attempt ends with (Ok if it returns the response).
AttemptError(outcome, n) ==
    IF outcome.kind = "RequestError"
    THEN [type |-> "RequestError", attempt |-> n]
    ELSE [type |-> "HTTPStatusError", attempt |-> n,
          status_code |-> outcome.status_code]
Fails(outcome) == outcome.kind = "RequestError" \/ RaisesForStatus(outcome)

Returned(value) == [called |-> TRUE, kind |-> "returned", value |-> value]
Raised(error)   == [called |-> TRUE, kind |-> "raised", error |-> error]

\* argparse.Namespace values: --format as typed on the command line.
Formats == {"markdown", "summary", "xml"}
FormatChoices == {"markdown", "summary"}
Namespaces ==
    [feed_url : Urls, output : {None, Some(<<"out.md">>)}, format : Formats,
     max_items : {None, Some(1)}, no_metadata : BOOLEAN,
     timeout : {5, 30}, retries : (0 - 1)..MaxRetries]

InitPipe ==
    /\ pc = "start" /\ args = None /\ client = "none" /\ attempt = 0
    /\ gets = <<>> /\ fetchRes = NotCalled /\ parsed = None /\ parseCalled = FALSE
    /\ output = <<>> /\ sink = None /\ status = None /\ log = <<>>
    /\ IdleClean /\ IdleParse /\ IdleFormat

\* main(): parse_args() exits with status 2 on a --format outside choices,
\* otherwise main_async(args) runs.
Main ==
    /\ pc = "start"
    /\ \E a \in Namespaces :
          IF a.format \in FormatChoices
          THEN /\ args' = a /\ pc' = "fetch" /\ UNCHANGED status
          ELSE /\ status' = Some(2) /\ pc' = "exit" /\ UNCHANGED args
    /\ UNCHANGED <<client, attempt, gets, fetchRes, parsed, parseCalled, output,
                   sink, log, cleanVars, parseVars, fmtVars>>

\* main_async(args) called with a Namespace built by the caller.
MainAsync ==
    /\ pc = "start"
    /\ \E a \in Namespaces : args' = a
    /\ pc' = "fetch"
    /\ UNCHANGED <<client, attempt, gets, fetchRes, parsed, parseCalled, output,
                   sink, status, log, cleanVars, parseVars, fmtVars>>

\* The "except Exception" clause of main_async: log the error, return 1.
Boundary(lg) ==
    /\ log' = lg \o <<LogRec("ERROR", "Error processing feed")>>
    /\ status' = Some(1)
    /\ pc' = "done"

\* fetch_rss_feed up to the creation of the client.
FetchValidate ==
    /\ pc = "fetch"
    /\ IF UrlRejected(args.feed_url)
       THEN /\ fetchRes' = Raised([type |-> "ValueError"])
            /\ Boundary(log \o <<LogRec("INFO", "Fetching feed")>>)
            /\ UNCHANGED <<client, attempt>>
       ELSE /\ client' = "open"
            /\ attempt' = 1
            /\ pc' = "loop"
            /\ log' = log \o <<LogRec("INFO", "Fetching feed"),
                               LogRec("INFO", "Fetching RSS feed")>>
            /\ UNCHANGED <<fetchRes, status>>
    /\ UNCHANGED <<args, gets, parsed, parseCalled, output, sink,
                   cleanVars, parseVars, fmtVars>>

\* One iteration of the retry loop: client.get, raise_for_status, and the
\* return or the except clause that follows.
Attempt ==
    /\ pc = "loop"
    /\ InRange(attempt, args.retries)
    /\ \E outcome \in GetOutcomes(args.feed_url) :
          /\ gets' = Append(gets, outcome)
          /\ IF ~Fails(outcome)
             THEN /\ fetchRes' = Returned([content     |-> outcome.content,
                                           url         |-> outcome.url,
                                           status_code |-> outcome.status_code])
                  /\ client' = "closed"
                  /\ pc' = "parse"
                  /\ log' = log \o <<LogRec("INFO", "Successfully fetched feed")>>
                  /\ UNCHANGED <<attempt, status>>
             ELSE IF LastAttempt(attempt, args.retries)
             THEN /\ fetchRes' = Raised(AttemptError(outcome, attempt))
                  /\ client' = "closed"
                  /\ Boundary(log \o <<LogRec("WARNING", "error on attempt")>>)
                  /\ UNCHANGED attempt
             ELSE /\ attempt' = attempt + 1
                  /\ log' = log \o <<LogRec("WARNING", "error on attempt")>>
                  /\ UNCHANGED <<fetchRes, client, pc, status>>
    /\ UNCHANGED <<args, parsed, parseCalled, output, sink,
                   cleanVars, parseVars, fmtVars>>

\* The loop ends without return or raise: the client is closed and the
\* final "raise httpx.HTTPError" runs.
FallThrough ==
    /\ pc = "loop"
    /\ ~InRange(attempt, args.retries)
    /\ client' = "closed"
    /\ fetchRes' = Raised([type |-> "HTTPError",
                           message |-> "Failed to fetch feed after all retries"])
    /\ Boundary(log)
    /\ UNCHANGED <<args, attempt, gets, parsed, parseCalled, output, sink,
                   cleanVars, parseVars, fmtVars>>

\* main_async: parse_rss_feed(feed_content=feed_data["content"])
Parse ==
    /\ pc = "parse"
    /\ parseCalled' = TRUE
    /\ LET r == ParseRssFeed(fetchRes.value.content)
       IN  IF r.raised # Ok
           THEN /\ Boundary(log \o <<LogRec("INFO", "Parsing RSS feed content")>> \o r.logs)
                /\ UNCHANGED parsed
           ELSE /\ parsed' = r.feed
                /\ pc' = "format"
                /\ log' = log \o <<LogRec("INFO", "Parsing RSS feed content")>> \o r.logs
                               \o <<LogRec("INFO", "Found news items")>>
                /\ UNCHANGED status
    /\ UNCHANGED <<args, client, attempt, gets, fetchRes, output, sink,
                   cleanVars, parseVars, fmtVars>>

\* main_async: the if / elif / else on args.format
Format ==
    /\ pc = "format"
    /\ IF args.format = "markdown"
       THEN /\ output' = FormatForNotebooklm(parsed, args.max_items, ~args.no_metadata)
            /\ pc' = "write"
            /\ UNCHANGED <<status, log>>
       ELSE IF args.format = "summary"
       THEN /\ output' = FormatAsJsonSummary(parsed, args.max_items)
            /\ pc' = "write"
            /\ UNCHANGED <<status, log>>
       ELSE /\ log' = log \o <<LogRec("ERROR", "Unknown format")>>
            /\ status' = Some(1)
            /\ pc' = "done"
            /\ UNCHANGED output
    /\ UNCHANGED <<args, client, attempt, gets, fetchRes, parsed, parseCalled,
                   sink, cleanVars, parseVars, fmtVars>>

\* The content of a sink: what reached it, and whether that is all of it.
Sink(kind, content, complete) ==
    [kind |-> kind, content |-> content, complete |-> complete]
\* What a write that fails part-way may leave behind.
Partial(text) == {SubSeq(text, 1, n) : n \in {0, Len(text) \div 2}}

\* Path(args.output).write_text(output): open(mode="w") creates or truncates
\* the file, or raises OSError and leaves it alone.
WriteOpen ==
    /\ pc = "write"
    /\ Truthy(args.output)
    /\ \E opened \in BOOLEAN :
          IF opened
          THEN /\ sink' = Sink("file", <<>>, FALSE)
               /\ pc' = "writing"
               /\ UNCHANGED <<status, log>>
          ELSE /\ Boundary(log)
               /\ UNCHANGED sink
    /\ UNCHANGED <<args, client, attempt, gets, fetchRes, parsed, parseCalled,
                   output, cleanVars, parseVars, fmtVars>>

\* write_text, after the open: f.write(data) and close, which store all of
\* the text, or raise OSError with part of it stored; then the info record
\* and "return 0".
WriteData ==
    /\ pc = "writing"
    /\ \E written \in BOOLEAN :
          IF written
          THEN /\ sink' = Sink("file", output, TRUE)
               /\ log' = log \o <<LogRec("INFO", "Output written")>>
               /\ status' = Some(0)
               /\ pc' = "done"
          ELSE /\ \E part \in Partial(output) : sink' = Sink("file", part, FALSE)
               /\ Boundary(log)
    /\ UNCHANGED <<args, client, attempt, gets, fetchRes, parsed, parseCalled,
                   output, cleanVars, parseVars, fmtVars>>

\* print(output): all of the text and a newline reach stdout, or the write
\* raises (a closed pipe) with part of it out; then "return 0".
PrintOutput ==
    /\ pc = "write"
    /\ ~Truthy(args.output)
    /\ \E printed \in BOOLEAN :
          IF printed
          THEN /\ sink' = Sink("stdout", output \o <<NL>>, TRUE)
               /\ status' = Some(0)
               /\ pc' = "done"
               /\ UNCHANGED log
          ELSE /\ \E part \in Partial(output) :
                     sink' = IF part = <<>> THEN sink ELSE Sink("stdout", part, FALSE)
               /\ Boundary(log)
    /\ UNCHANGED <<args, client, attempt, gets, fetchRes, parsed, parseCalled,
                   output, cleanVars, parseVars, fmtVars>>

Next ==
    \/ Main \/ MainAsync \/ FetchValidate \/ Attempt \/ FallThrough
    \/ Parse \/ Format \/ WriteOpen \/ WriteData \/ PrintOutput
Spec == InitPipe /\ [][Next]_vars

----------------------------------------------------------------------------
(* Properties *)

\* A URL that is empty or lacks a scheme or an authority component.
InvalidUrl(url) ==
    url = "" \/ Urlparse(url).scheme = "" \/ Urlparse(url).netloc = ""
FetchDone == fetchRes.called

\* C1: for a valid URL and max_retries >= 1, every GET before the last one
\* failed; if the last GET succeeded its body, final URL and status code are
\* what fetch_rss_feed returned (so the number of GETs is the index of the
\* first success); otherwise exactly max_retries GETs were made and the error
\* raised is the one of the last GET, whatever the mix of HTTP-status and
\* network failures.
C1_AttemptsUntilFirstSuccess ==
    (FetchDone /\ ~InvalidUrl(args.feed_url) /\ args.retries >= 1) =>
        LET n == Len(gets)
        IN  /\ n >= 1 /\ n <= args.retries
            /\ \A i \in 1..(n - 1) : Fails(gets[i])
            /\ IF Fails(gets[n])
               THEN /\ n = args.retries
                    /\ fetchRes = Raised(AttemptError(gets[n], n))
               ELSE fetchRes = Returned([content     |-> gets[n].content,
                                         url         |-> gets[n].url,
                                         status_code |-> gets[n].status_code])
\* A network failure, then an HTTP error status, then a success on the third
\* and last allowed attempt, returned after a redirect.
C1_Witness ==
    /\ FetchDone /\ fetchRes.kind = "returned" /\ args.retries = 3
    /\ Len(gets) = 3
    /\ gets[1].kind = "RequestError"
    /\ gets[2].kind = "response" /\ gets[2].status_code = 404
    /\ fetchRes.value.url # args.feed_url
    /\ pc = "done"

\* C2: with a URL that is empty or lacks a scheme or an authority, whatever
\* timeout and max_retries are, no client is ever created, no GET is ever
\* issued, and fetch_rss_feed ends by raising ValueError.
C2_InvalidUrlNoNetwork ==
    (args # None /\ InvalidUrl(args.feed_url)) =>
        /\ client = "none"
        /\ gets = <<>>
        /\ pc \notin {"loop", "parse", "format", "write", "writing"}
        /\ FetchDone => fetchRes = Raised([type |-> "ValueError"])
C2_Witness ==
    /\ args # None /\ args.feed_url = "http:///feed" /\ args.retries = 3
    /\ args.timeout = 5
    /\ FetchDone /\ fetchRes = Raised([type |-> "ValueError"])
    /\ status = Some(1)

\* The text of an element as the claim reads it: its own content, trimmed.
ElemText(e) == IF e = NoElem THEN <<>> ELSE Strip(e.text)
Qualifies(item_elem) ==
    ElemText(item_elem.title) # <<>> /\ ElemText(item_elem.link) # <<>>
ParsedChannel == parseRes.called /\ doc.wellformed /\ doc.channels # <<>>

\* C3: for a well-formed document with a channel, parse_rss_feed returns, and
\* its items are, in document order, exactly the item elements whose title
\* and link are both non-empty after trimming.
C3_ItemsAreQualifyingElements ==
    ParsedChannel =>
        /\ parseRes.raised = Ok
        /\ LET kept == SelectSeq(doc.channels[1].items, Qualifies)
               got  == parseRes.feed.items
           IN  /\ Len(got) = Len(kept)
               /\ \A i \in 1..Len(kept) :
                     /\ got[i].title = ElemText(kept[i].title)
                     /\ got[i].link = ElemText(kept[i].link)

\* The number of items a call with max_items renders.
Rendered(max_items, total) ==
    IF max_items = None \/ max_items.val <= 0 THEN total
    ELSE Min(max_items.val, total)

\* C4: the output of either formatter is the rendering of the first
\* min(k, total) items of the feed, in order, for max_items = k > 0, and of
\* all items for max_items None or <= 0.
C4_RendersFirstMinItems ==
    fmtCall # None =>
        LET first == SubSeq(fmtFeed.items, 1,
                            Rendered(fmtCall.max_items, Len(fmtFeed.items)))
        IN  IF fmtCall.mode = "markdown"
            THEN fmtOut = Join(<<NL>>,
                               (IF fmtCall.include_metadata
                                THEN MdMetaLines(fmtFeed.metadata) ELSE <<>>)
                               \o MdLoop(1, first))
            ELSE fmtOut = Join(<<NL>>,
                               << <<"Feed: ">> \o fmtFeed.metadata.title,
                                  <<"Total Items: ", ToString(Len(first))>>,
                                  <<>>, <<"Articles:">>, <<>> >>
                               \o SummaryLoop(1, first))
\* max_items = 1 on a feed of two different items: only the first is rendered.
C4_Witness ==
    /\ fmtCall # None /\ fmtCall.mode = "summary" /\ fmtCall.max_items = Some(1)
    /\ Len(fmtFeed.items) = 2
    /\ fmtFeed.items[1] # fmtFeed.items[2]
    /\ fmtOut = FormatAsJsonSummary([fmtFeed EXCEPT !.items = <<fmtFeed.items[1]>>], None)
    /\ fmtOut # FormatAsJsonSummary(fmtFeed, None)

\* C5: _clean_html is idempotent: a second application returns the result
\* of the first unchanged.
C5_CleanIdempotent ==
    Len(cleanTexts) >= 2 => cleanTexts[2] = cleanTexts[1]

\* The date strings parse_rss_feed hands to _parse_date that dateutil rejects.
DateFails(s) == s # <<>> /\ DateutilParse(s).raised # Ok
IsWarning(rec) == rec.level = "WARNING"
PubDateFails(item_elem) == DateFails(ExtractText(item_elem.pubDate, <<>>))

\* C6: every lastBuildDate or pubDate string that fails to parse leaves its
\* field absent and is logged as a warning, and parse_rss_feed still returns.
C6_DateFailuresLoggedNotRaised ==
    ParsedChannel =>
        LET channel == doc.channels[1]
        IN  /\ parseRes.raised = Ok
            /\ DateFails(ExtractText(channel.lastBuildDate, <<>>))
                  => parseRes.feed.metadata.last_build_date = None
            /\ Len(SelectSeq(parseLog, IsWarning))
                  = Len(SelectSeq(channel.items, PubDateFails))
                    + (IF DateFails(ExtractText(channel.lastBuildDate, <<>>))
                       THEN 1 ELSE 0)

\* C7: a run that ends with a non-zero status has put nothing in the file or
\* on stdout, and status 0 is returned only with the whole output written.
C7_NoOutputOnFailure ==
    /\ (status # None /\ status # Some(0)) => sink = None
    /\ status = Some(0) => (sink # None /\ sink.complete)

\* C8: when the format selector given to the pipeline is neither markdown
\* nor summary, no GET is issued and parse_rss_feed is not called.
C8_UnknownFormatFailsFast ==
    (args # None /\ args.format \notin FormatChoices) =>
        gets = <<>> /\ ~parseCalled

\* C9: with include_metadata = False no line of the markdown output is the
\* header line.
C9_NoHeaderLineWithoutMetadata ==
    (fmtCall # None /\ fmtCall.mode = "markdown" /\ ~fmtCall.include_metadata) =>
        \A i \in 1..Len(SplitLines(fmtOut)) : SplitLines(fmtOut)[i] # <<Hdr>>

\* C10: for a valid URL, fetch_rss_feed ends with the generic "Failed to
\* fetch feed after all retries" error exactly when max_retries <= 0, and
\* then without any GET; with max_retries >= 1 the loop never runs out.
C10_FallThroughIffNoRetries ==
    /\ (FetchDone /\ ~InvalidUrl(args.feed_url)) =>
          /\ (fetchRes.kind = "raised" /\ fetchRes.error.type = "HTTPError")
                <=> args.retries <= 0
          /\ args.retries <= 0 => gets = <<>>
    /\ (pc = "loop" /\ args.retries >= 1) => attempt <= args.retries
C10_Witness ==
    /\ FetchDone /\ fetchRes.kind = "raised" /\ fetchRes.error.type = "HTTPError"
    /\ args.retries = 0
    /\ client = "closed" /\ gets = <<>> /\ status = Some(1)

====
